---- MODULE Spec2Model ----
(***************************************************************************)
(* Model of wumn's platform-dispatch layer: the Platform resolver          *)
(* (src/src/platform.rs), DbManager (src/src/db_manager.rs), the derived   *)
(* ToTableName capability (src/codegen/src/table_derive.rs) and the        *)
(* insert-then-return example of the crate documentation (src/src/lib.rs). *)
(* Strings are sequences of one-character strings, so that parsing,        *)
(* lower-casing and slicing are computed character by character.           *)
(***************************************************************************)
EXTENDS Integers, Sequences, FiniteSets, TLC

VARIABLES with_postgres, conns, issued, managers, last,
          ty, tn, tn_prev,
          table, serial, today, inserted

vars == <<with_postgres, conns, issued, managers, last,
          ty, tn, tn_prev, table, serial, today, inserted>>

dbvars == <<with_postgres, conns, issued, managers, last>>
tnvars == <<ty, tn, tn_prev>>
emvars == <<table, serial, today, inserted>>

(* ---------------------------------------------------------------- bounds *)
MaxConns == 3
MaxIdentLen == 3
MaxRecords == 2
MaxRows == 3
MaxDay == 1

(* ------------------------------------------------------------ characters *)
UpperChars == <<"A","B","C","D","E","F","G","H","I","J","K","L","M",
                "N","O","P","Q","R","S","T","U","V","W","X","Y","Z">>
LowerChars == <<"a","b","c","d","e","f","g","h","i","j","k","l","m",
                "n","o","p","q","r","s","t","u","v","w","x","y","z">>
DigitChars == <<"0","1","2","3","4","5","6","7","8","9">>

Range(f) == {f[i] : i \in DOMAIN f}

UpperSet == Range(UpperChars)
LowerSet == Range(LowerChars)
DigitSet == Range(DigitChars)

IsUpper(c) == c \in UpperSet
IsLower(c) == c \in LowerSet
IsAlpha(c) == IsUpper(c) \/ IsLower(c)
IsDigit(c) == c \in DigitSet

\* char::to_ascii_lowercase / the ASCII part of char::to_lowercase
to_lower_char(c) ==
    IF IsUpper(c)
    THEN LowerChars[CHOOSE i \in DOMAIN UpperChars : UpperChars[i] = c]
    ELSE c

\* str::to_lowercase, character by character
to_lowercase(s) == [i \in 1..Len(s) |-> to_lower_char(s[i])]

Min(S) == CHOOSE x \in S : \A y \in S : x <= y
Max(S) == CHOOSE x \in S : \A y \in S : x >= y

(* ------------------------------------------------------ url::Url::parse *)
\* The url crate's parser, for the part Platform::try_from reads: whether
\* the string is a well-formed absolute URL, and its scheme.  Inputs are
\* URLs of non-special schemes (postgres and the like), parsed without a
\* base URL.

\* leading and trailing C0-control-or-space characters are dropped first
IsC0OrSpace(c) == c = " "

trim(s) ==
    LET keep == {i \in 1..Len(s) : ~IsC0OrSpace(s[i])}
    IN  IF keep = {} THEN <<>> ELSE SubSeq(s, Min(keep), Max(keep))

\* scheme characters after the first: ASCII alphanumeric, "+", "-", "."
IsSchemeChar(c) == IsAlpha(c) \/ IsDigit(c) \/ c \in {"+", "-", "."}

\* number of leading scheme characters of s
scheme_len(s) ==
    LET stop == {i \in 1..Len(s) : ~IsSchemeChar(s[i])}
    IN  IF stop = {} THEN Len(s) ELSE Min(stop) - 1

\* code points an opaque host may not contain
ForbiddenHostChars ==
    {" ", "#", "%", "/", ":", "?", "@", "[", "\\", "]", "<", ">", "^", "|"}

IsForbiddenHostChar(c) == c \in ForbiddenHostChars

\* the authority of "//authority/path": up to the first "/", "?" or "#"
authority_of(rest) ==
    LET body == SubSeq(rest, 3, Len(rest))
        stop == {i \in 1..Len(body) : body[i] \in {"/", "?", "#"}}
    IN  IF stop = {} THEN body ELSE SubSeq(body, 1, Min(stop) - 1)

\* host[:port] is what follows the last "@" of the authority
hostport_of(auth) ==
    LET ats == {i \in 1..Len(auth) : auth[i] = "@"}
    IN  IF ats = {} THEN auth ELSE SubSeq(auth, Max(ats) + 1, Len(auth))

host_of(hp) ==
    LET cs == {i \in 1..Len(hp) : hp[i] = ":"}
    IN  IF cs = {} THEN hp ELSE SubSeq(hp, 1, Min(cs) - 1)

port_of(hp) ==
    LET cs == {i \in 1..Len(hp) : hp[i] = ":"}
    IN  IF cs = {} THEN <<>> ELSE SubSeq(hp, Min(cs) + 1, Len(hp))

UrlOk(scheme) == [ok |-> TRUE, scheme |-> scheme, err |-> "none"]
UrlErr(e) == [ok |-> FALSE, scheme |-> <<>>, err |-> e]

\* what follows "scheme:" of a non-special scheme
parse_after_scheme(scheme, rest) ==
    IF Len(rest) >= 2 /\ rest[1] = "/" /\ rest[2] = "/"
    THEN LET hp == hostport_of(authority_of(rest))
         IN  IF \E i \in 1..Len(port_of(hp)) : ~IsDigit(port_of(hp)[i])
             THEN UrlErr("InvalidPort")
             ELSE IF \E i \in 1..Len(host_of(hp)) :
                        IsForbiddenHostChar(host_of(hp)[i])
             THEN UrlErr("InvalidDomainCharacter")
             ELSE UrlOk(scheme)
    ELSE UrlOk(scheme)

parse_url(input) ==
    LET s == trim(input)
        n == scheme_len(s)
    IN  IF s = <<>> \/ ~IsAlpha(s[1])
        THEN UrlErr("RelativeUrlWithoutBase")
        ELSE IF n < Len(s) /\ s[n + 1] = ":"
        THEN parse_after_scheme(to_lowercase(SubSeq(s, 1, n)),
                                SubSeq(s, n + 2, Len(s)))
        ELSE UrlErr("RelativeUrlWithoutBase")

(* ------------------------------------------------------ connection URLs *)
sPostgres == <<"p","o","s","t","g","r","e","s">>
sPOSTGRES == <<"P","O","S","T","G","R","E","S">>
sPostgresCap == <<"P","o","s","t","g","r","e","s">>
sPostgresql == <<"p","o","s","t","g","r","e","s","q","l">>
sMysterydb == <<"m","y","s","t","e","r","y","d","b">>
sMysteryDB == <<"M","y","s","t","e","r","y","D","B">>
sDigitFirst == <<"1","p","g">>
sNotAUrl == <<"n","o","t"," ","a"," ","u","r","l">>

SchemeTexts ==
    {sPostgres, sPOSTGRES, sPostgresCap, sPostgresql, sMysterydb, sMysteryDB,
     sDigitFirst}

sepAuthority == <<":","/","/">>
sepColon == <<":">>

restUserHostDb == <<"u",":","p","@","h","o","s","t","/","d","b">>
restBadPort == <<"h","o","s","t",":","a","b","c","/","d","b">>
restBadHost == <<"h","o"," ","s","t","/","d","b">>

Rests == {restUserHostDb, restBadPort, restBadHost, <<>>}

\* the connection strings a caller passes to DbManager.em / DbManager.dm
DbUrls ==
    {s \o sepAuthority \o r : s \in SchemeTexts, r \in Rests}
    \cup {s \o sep \o r : s \in {sPostgres, sMysteryDB},
                          sep \in {sepColon, <<>>},
                          r \in {restUserHostDb, <<>>}}
    \cup {<<" ">> \o sPostgres \o sepAuthority \o restUserHostDb,
          sNotAUrl, <<>>}

\* Url::parse on the connection strings above, computed once per string
ParsedUrls == [u \in DbUrls |-> parse_url(u)]

Url_parse(input) == ParsedUrls[input]

(* ------------------------------------------------------------- platform *)
Ok(v) == <<"Ok", v>>
Err(e) == <<"Err", e>>
IsOk(r) == r[1] = "Ok"
IsErr(r) == r[1] = "Err"

\* enum Platform { Postgres (feature with-postgres), Unsupported(String) }
Postgres == <<"Postgres">>
Unsupported(scheme) == <<"Unsupported", scheme>>

\* enum ParseError { DbUrlParseError(url::ParseError) }
DbUrlParseError(e) == <<"DbUrlParseError", e>>

\* a resolver that reports the whole connection string, not its scheme
try_from_whole_url(s) ==
    LET url == Url_parse(s)
    IN  IF url.ok
        THEN IF with_postgres /\ url.scheme = sPostgres
             THEN Ok(Postgres)
             ELSE Ok(Unsupported(s))
        ELSE Err(DbUrlParseError(url.err))

\* a resolver that falls back to the default backend for an unknown scheme
try_from_default_backend(s) ==
    LET url == Url_parse(s)
    IN  IF url.ok
        THEN IF with_postgres
             THEN Ok(Postgres)
             ELSE Ok(Unsupported(url.scheme))
        ELSE Err(DbUrlParseError(url.err))

\* a resolver whose "postgres" arm reports the backend as unknown without
\* naming the scheme when the backend is not compiled in
try_from_anonymous(s) ==
    LET url == Url_parse(s)
    IN  IF url.ok
        THEN IF url.scheme = sPostgres
             THEN IF with_postgres THEN Ok(Postgres) ELSE Ok(Unsupported(<<>>))
             ELSE Ok(Unsupported(url.scheme))
        ELSE Err(DbUrlParseError(url.err))

\* impl TryFrom<&str> for Platform; the "postgres" arm exists only in a
\* build with the feature with-postgres
try_from(s) ==
    LET url == Url_parse(s)
    IN  IF url.ok
        THEN IF with_postgres /\ url.scheme = sPostgres
             THEN Ok(Postgres)
             ELSE Ok(Unsupported(url.scheme))
        ELSE Err(DbUrlParseError(url.err))

(* ------------------------------------------------------------ DbManager *)
\* enum ConnectError { ParseError(ParseError), UnsupportedDb(String), .. }
ConnectParseError(e) == <<"ParseError", e>>
UnsupportedDb(scheme) == <<"UnsupportedDb", scheme>>
\* enum DbError { ConnectError(ConnectError), .. }
ConnectError(e) == <<"ConnectError", e>>

\* enum DBPlatform { Postgres(PostgresDB) }, PostgresDB(conn)
DBPlatformPostgres(conn) == <<"Postgres", conn>>
EntityManager(db) == <<"EntityManager", db>>
DaoManager(db) == <<"DaoManager", db>>
conn_of(m) == m[2][2]

\* what the backend does with a connection attempt
Nets == {"accepts", "refuses"}

\* pg::init_connection: establishes a new connection and returns it.  Its
\* return value is used by db as the connection itself, so a refused
\* connection cannot come back as a value: the call unwinds.
init_connection(db_url, net) ==
    IF net = "accepts" THEN <<"conn", issued + 1>> ELSE <<"panic">>

Panicked == <<"Panic">>

DbOut(platform, ret, attempts, opened) ==
    [platform |-> platform, ret |-> ret, attempts |-> attempts,
     opened |-> opened]

\* a db that hands out the connection it already holds for a backend
db_pooled(db_url, net) ==
    LET platform == try_from(db_url)
    IN  IF IsOk(platform)
        THEN IF platform[2] = Postgres
             THEN IF conns # {}
                  THEN DbOut(platform,
                             Ok(DBPlatformPostgres(Min(conns))), 0, {})
                  ELSE LET conn == init_connection(db_url, net)
                       IN  IF conn = <<"panic">>
                           THEN DbOut(platform, Panicked, 1, {})
                           ELSE DbOut(platform,
                                      Ok(DBPlatformPostgres(conn[2])), 1,
                                      {conn[2]})
             ELSE DbOut(platform,
                        Err(ConnectError(UnsupportedDb(platform[2][2]))),
                        0, {})
        ELSE DbOut(platform, Err(ConnectError(ConnectParseError(platform[2]))),
                   0, {})

\* a db that connects before it looks at the resolver's answer
db_connect_first(db_url, net) ==
    LET platform == try_from(db_url)
        conn == init_connection(db_url, net)
    IN  IF conn = <<"panic">>
        THEN DbOut(platform, Panicked, 1, {})
        ELSE IF IsOk(platform)
        THEN IF platform[2] = Postgres
             THEN DbOut(platform, Ok(DBPlatformPostgres(conn[2])), 1,
                        {conn[2]})
             ELSE DbOut(platform,
                        Err(ConnectError(UnsupportedDb(platform[2][2]))),
                        1, {conn[2]})
        ELSE DbOut(platform, Err(ConnectError(ConnectParseError(platform[2]))),
                   1, {conn[2]})

\* a db that reports a malformed URL as an unsupported database
db_one_error(db_url, net) ==
    LET platform == try_from(db_url)
    IN  IF IsOk(platform)
        THEN IF platform[2] = Postgres
             THEN LET conn == init_connection(db_url, net)
                  IN  IF conn = <<"panic">>
                      THEN DbOut(platform, Panicked, 1, {})
                      ELSE DbOut(platform, Ok(DBPlatformPostgres(conn[2])), 1,
                                 {conn[2]})
             ELSE DbOut(platform,
                        Err(ConnectError(UnsupportedDb(platform[2][2]))),
                        0, {})
        ELSE DbOut(platform, Err(ConnectError(UnsupportedDb(db_url))), 0, {})

\* DbManager::db: the local `platform`, the value returned, the number of
\* connection attempts made and the connections opened
db(db_url, net) ==
    LET platform == try_from(db_url)
    IN  IF IsOk(platform)
        THEN IF platform[2] = Postgres
             THEN LET conn == init_connection(db_url, net)
                  IN  IF conn = <<"panic">>
                      THEN DbOut(platform, Panicked, 1, {})
                      ELSE DbOut(platform, Ok(DBPlatformPostgres(conn[2])), 1,
                                 {conn[2]})
             ELSE DbOut(platform,
                        Err(ConnectError(UnsupportedDb(platform[2][2]))),
                        0, {})
        ELSE DbOut(platform, Err(ConnectError(ConnectParseError(platform[2]))),
                   0, {})

\* a front end that gives up its handle without closing the connection
drop_manager_leak(m) == conns

\* a manager front end goes out of scope: it owns its DBPlatform, which owns
\* the connection, so the connection is closed with it
drop_manager(m) == conns \ {conn_of(m)}

NoPlatform == <<"None">>
Unit == <<"Unit">>

Call(op, db_url, net, out, ret) ==
    [op |-> op, url |-> db_url,
     net |-> IF out.attempts > 0 THEN net ELSE "unused",
     platform |-> out.platform, ret |-> ret, attempts |-> out.attempts,
     pre_conns |-> conns, pre_managers |-> managers]

NoCall(op) ==
    [op |-> op, url |-> <<>>, net |-> "unused", platform |-> NoPlatform,
     ret |-> Unit, attempts |-> 0, pre_conns |-> conns,
     pre_managers |-> managers]

\* the bound on the connections ever opened stops only calls that would open
\* one more
MayConnect(db_url) == try_from(db_url) = Ok(Postgres) => issued < MaxConns

\* what a call leaves behind: the connections db opened, the manager handed
\* to the caller, and the record of the call
returned(op, db_url, net, out, ret) ==
    /\ MayConnect(db_url)
    /\ conns' = conns \cup out.opened
    /\ issued' = issued + Cardinality(out.opened)
    /\ managers' = IF IsOk(ret) THEN managers \cup {ret[2]} ELSE managers
    /\ last' = Call(op, db_url, net, out, ret)
    /\ UNCHANGED <<with_postgres, tnvars, emvars>>

\* DbManager::em: let db = self.db(db_url)?; Ok(EntityManager(db))
em(db_url, net) ==
    LET out == db(db_url, net)
    IN  returned("em", db_url, net, out,
                 IF IsOk(out.ret) THEN Ok(EntityManager(out.ret[2]))
                 ELSE out.ret)

\* DbManager::dm: let db = self.db(db_url)?; Ok(DaoManager(db))
dm(db_url, net) ==
    LET out == db(db_url, net)
    IN  returned("dm", db_url, net, out,
                 IF IsOk(out.ret) THEN Ok(DaoManager(out.ret[2]))
                 ELSE out.ret)

\* the caller lets a manager it holds go out of scope
Discard(m) ==
    /\ m \in managers
    /\ managers' = managers \ {m}
    /\ conns' = drop_manager(m)
    /\ last' = NoCall("drop")
    /\ UNCHANGED <<with_postgres, issued, tnvars, emvars>>

\* type identifiers and table rows before anything was derived or inserted
InitOther ==
    /\ ty = <<>>
    /\ tn = <<"None">>
    /\ tn_prev = <<"None">>
    /\ table = <<>>
    /\ serial = 1
    /\ today = 0
    /\ inserted = <<"None">>

\* DbManager::new(): no state; nothing connected; either build
Init ==
    /\ with_postgres \in BOOLEAN
    /\ conns = {}
    /\ issued = 0
    /\ managers = {}
    /\ last = NoCall("new")
    /\ InitOther

Em == \E u \in DbUrls, net \in Nets : em(u, net)
Dm == \E u \in DbUrls, net \in Nets : dm(u, net)
Drop == \E m \in managers : Discard(m)

Next == Em \/ Dm \/ Drop

Spec == Init /\ [][Next]_vars

(* ---------------------------------------------------------- ToTableName *)
None == <<"None">>
Some(v) == <<"Some", v>>

sActor == <<"A","c","t","o","r">>

\* characters of the type identifiers a record type may be declared with
IdentChars == {"A", "c", "T", "_", "1"}

RECURSIVE Strings(_, _)
Strings(chars, n) ==
    IF n = 0 THEN {<<>>}
    ELSE LET shorter == Strings(chars, n - 1)
         IN  shorter \cup {Append(w, c) : w \in shorter, c \in chars}

\* Rust identifiers: non-empty, not starting with a digit
Idents ==
    {w \in Strings(IdentChars, MaxIdentLen) : w # <<>> /\ ~IsDigit(w[1])}
    \cup {sActor}

\* a derive that keeps the identifier as written
to_table_name_as_written(name) ==
    [name |-> name, schema |-> None, alias |-> None]

\* the to_table_name() that impl_to_table_name generates for the type `name`
to_table_name(name) ==
    [name |-> to_lowercase(name), schema |-> None, alias |-> None]

\* #[derive(ToTableName)] on a struct named ident
Derive(ident) ==
    /\ ty' = ident
    /\ tn' = None
    /\ tn_prev' = None
    /\ UNCHANGED <<dbvars, emvars>>

\* a call of <ty as ToTableName>::to_table_name()
CallToTableName ==
    /\ ty # <<>>
    /\ tn' = Some(to_table_name(ty))
    /\ tn_prev' = tn
    /\ UNCHANGED <<ty, dbvars, emvars>>

DeriveAny == \E ident \in Idents : Derive(ident)

NextTableName == DeriveAny \/ CallToTableName

SpecTableName == Init /\ [][NextTableName]_vars

(* -------------------------------------------------- EntityManager.insert *)
\* the doc example's for_insert::Actor { first_name, last_name }
FirstNames == {"TOM", "PENELOPE"}
LastNames == {"CRUISE", "HANKS"}
InsertActors == [first_name : FirstNames, last_name : LastNames]

RECURSIVE Batches(_)
Batches(n) ==
    IF n = 0 THEN {<<>>}
    ELSE LET shorter == Batches(n - 1)
         IN  shorter \cup {Append(b, r) : b \in shorter, r \in InsertActors}

\* Value variants the example's columns use
ValueText(v) == <<"Text", v>>
ValueInt(v) == <<"Int", v>>
ValueTimestamp(v) == <<"Timestamp", v>>

\* ToDao for for_insert::Actor: one entry per declared column, in order
to_dao(r) ==
    << <<"first_name", ValueText(r.first_name)>>,
       <<"last_name", ValueText(r.last_name)>> >>

\* Dao::get
dao_get(dao, column) ==
    LET at == {i \in 1..Len(dao) : dao[i][1] = column}
    IN  IF at = {} THEN None ELSE Some(dao[Min(at)][2])

\* the backend's INSERT .. RETURNING *: the row as stored, with the serial
\* actor_id and the server-assigned last_update
returned_row(dao, id, day) ==
    << <<"actor_id", ValueInt(id)>> >> \o dao
       \o << <<"last_update", ValueTimestamp(day)>> >>

\* FromDao for for_retrieve::Actor
from_dao(dao) ==
    [actor_id |-> dao_get(dao, "actor_id")[2][2],
     first_name |-> dao_get(dao, "first_name")[2][2],
     last_name |-> dao_get(dao, "last_name")[2][2],
     last_update |-> dao_get(dao, "last_update")[2][2]]

\* an insert that returns the rows newest first
insert_newest_first(records, backend) ==
    IF backend = "fails"
    THEN [ret |-> Err(<<"PlatformError">>), rows |-> <<>>]
    ELSE LET rows == [i \in 1..Len(records) |->
                         returned_row(to_dao(records[i]), serial + i - 1,
                                      today)]
         IN  [ret |-> Ok([i \in 1..Len(rows) |->
                              from_dao(rows[Len(rows) + 1 - i])]),
              rows |-> rows]

\* EntityManager::insert: each record through ToDao, one insert per record,
\* the returned rows through FromDao
insert(records, backend) ==
    IF backend = "fails"
    THEN [ret |-> Err(<<"PlatformError">>), rows |-> <<>>]
    ELSE LET rows == [i \in 1..Len(records) |->
                         returned_row(to_dao(records[i]), serial + i - 1,
                                      today)]
         IN  [ret |-> Ok([i \in 1..Len(rows) |-> from_dao(rows[i])]),
              rows |-> rows]

Backends == {"succeeds", "fails"}

\* em.insert(&[..]) on an EntityManager the caller holds
Insert(records, backend) ==
    LET out == insert(records, backend)
    IN  /\ \E m \in managers : m[1] = "EntityManager"
        /\ Len(table) + Len(records) <= MaxRows
        /\ table' = table \o out.rows
        /\ serial' = serial + Len(out.rows)
        /\ inserted' = Some([records |-> records, ret |-> out.ret,
                             day |-> today, first_id |-> serial])
        /\ UNCHANGED <<today, dbvars, tnvars>>

\* the server's date moves on
Tick ==
    /\ today < MaxDay
    /\ today' = today + 1
    /\ UNCHANGED <<table, serial, inserted, dbvars, tnvars>>

InsertAny ==
    \E records \in Batches(MaxRecords), backend \in Backends :
        Insert(records, backend)

\* the state after `let em = dbm.em(db_url).unwrap()` of the doc example
InitInsert ==
    /\ with_postgres = TRUE
    /\ conns = {1}
    /\ issued = 1
    /\ managers = {EntityManager(DBPlatformPostgres(1))}
    /\ last = [op |-> "em",
               url |-> sPostgres \o sepAuthority \o restUserHostDb,
               net |-> "accepts", platform |-> Ok(Postgres),
               ret |-> Ok(EntityManager(DBPlatformPostgres(1))),
               attempts |-> 1, pre_conns |-> {}, pre_managers |-> {}]
    /\ InitOther

NextInsert == InsertAny \/ Tick

SpecInsert == InitInsert /\ [][NextInsert]_vars

(* ------------------------------------------------------------ properties *)
IsCall == last.op \in {"em", "dm"}
WellFormed(u) == Url_parse(u).ok
SchemeOf(u) == Url_parse(u).scheme

\* a scheme is reserved when a compiled-in backend claims it
Reserved(u) == with_postgres /\ SchemeOf(u) = sPostgres

\* the scheme as the caller wrote it: what precedes the first ":"
WrittenScheme(u) ==
    LET s == trim(u)
        cs == {i \in 1..Len(s) : s[i] = ":"}
    IN  IF cs = {} THEN s ELSE SubSeq(s, 1, Min(cs) - 1)

IsUnsupported(r) == IsOk(r) /\ r[2][1] = "Unsupported"

\* C1: the resolver fails with DbUrlParseError exactly on the strings that
\* are not well-formed URLs, yields Postgres for every well-formed URL whose
\* scheme is the reserved scheme "postgres", and Unsupported for every other
\* well-formed URL; nothing resolves to a default platform.
ResolverClassifies ==
    IsCall =>
        /\ IsErr(last.platform) <=> ~WellFormed(last.url)
        /\ IsErr(last.platform) =>
               last.platform[2] = DbUrlParseError(Url_parse(last.url).err)
        /\ WellFormed(last.url) /\ Reserved(last.url) =>
               last.platform = Ok(Postgres)
        /\ WellFormed(last.url) /\ ~Reserved(last.url) =>
               IsUnsupported(last.platform)

ResolvedPostgres ==
    /\ IsCall
    /\ last.url = sPOSTGRES \o sepAuthority \o restUserHostDb
    /\ last.platform = Ok(Postgres)

\* C2 as stated: the string carried by Unsupported is the scheme character
\* for character as written in the connection string, letter case included.
SchemeVerbatim ==
    IsCall /\ IsUnsupported(last.platform) =>
        last.platform[2][2] = WrittenScheme(last.url)

\* C2 as amended: the string carried by Unsupported is the written scheme
\* with its ASCII upper-case letters converted to lower case, so it is the
\* written scheme itself when that holds no upper-case letter.
SchemeLowercased ==
    IsCall /\ IsUnsupported(last.platform) =>
        /\ last.platform[2][2] = to_lowercase(WrittenScheme(last.url))
        /\ (\A i \in 1..Len(WrittenScheme(last.url)) :
                ~IsUpper(WrittenScheme(last.url)[i]))
               => last.platform[2][2] = WrittenScheme(last.url)

UnsupportedMixedCase ==
    /\ IsCall
    /\ WrittenScheme(last.url) = sMysteryDB
    /\ last.platform = Ok(Unsupported(sMysterydb))

\* C3: em and dm return no manager when resolution fails: a malformed URL
\* fails with ConnectError(ParseError(e)), e the resolver's error; an
\* unrecognized scheme fails with ConnectError(UnsupportedDb(scheme)); the
\* two are never reported as each other.
ResolutionErrorsReported ==
    IsCall =>
        /\ ~WellFormed(last.url) =>
               /\ IsErr(last.platform)
               /\ last.ret =
                      Err(ConnectError(ConnectParseError(last.platform[2])))
               /\ managers = last.pre_managers
        /\ WellFormed(last.url) /\ ~Reserved(last.url) =>
               /\ last.ret =
                      Err(ConnectError(UnsupportedDb(SchemeOf(last.url))))
               /\ managers = last.pre_managers
        /\ IsErr(last.ret) =>
               /\ last.ret[2][1] = "ConnectError"
               /\ last.ret[2][2][1] \in {"ParseError", "UnsupportedDb"}
               /\ last.ret[2][2][1] = "ParseError" <=> ~WellFormed(last.url)

MalformedUrlRejected ==
    /\ last.op = "dm"
    /\ last.url = sNotAUrl
    /\ last.ret = Err(ConnectError(ConnectParseError(
                      DbUrlParseError("RelativeUrlWithoutBase"))))

ConnectFailureReported ==
    IsCall /\ last.net = "refuses" =>
        /\ IsErr(last.ret)
        /\ last.ret[2][1] = "ConnectError"
        /\ last.attempts = 1
        /\ managers = last.pre_managers

\* C7: the live connections are exactly those owned by live managers, one
\* manager per connection, and a call that returned no manager left no
\* connection open.
ConnectionsOwnedAndReleased ==
    /\ conns = {conn_of(m) : m \in managers}
    /\ Cardinality(conns) = Cardinality(managers)
    /\ IsCall /\ ~IsOk(last.ret) => conns = last.pre_conns

ReleasedWhileOthersLive ==
    /\ last.op = "drop"
    /\ managers # {}
    /\ Cardinality(last.pre_managers) = Cardinality(managers) + 1

\* C9: without the feature with-postgres a "postgres" URL resolves to
\* Unsupported("postgres") and em and dm fail with UnsupportedDb("postgres"),
\* as an unknown scheme such as "mysterydb" does with the feature.
UnsupportedAtBuildSamePath ==
    IsCall =>
        /\ ~with_postgres /\ WellFormed(last.url)
                /\ SchemeOf(last.url) = sPostgres =>
               /\ last.platform = Ok(Unsupported(sPostgres))
               /\ last.ret = Err(ConnectError(UnsupportedDb(sPostgres)))
               /\ last.attempts = 0
        /\ with_postgres /\ WellFormed(last.url)
                /\ SchemeOf(last.url) = sMysterydb =>
               /\ last.platform = Ok(Unsupported(sMysterydb))
               /\ last.ret = Err(ConnectError(UnsupportedDb(sMysterydb)))
               /\ last.attempts = 0

PostgresNotCompiledIn ==
    /\ ~with_postgres
    /\ last.op = "em"
    /\ last.url = sPostgres \o sepAuthority \o restUserHostDb
    /\ IsErr(last.ret)

\* C10: for a URL that is malformed or has an unsupported scheme, the call
\* returns its error without a connection attempt and leaves the
\* connections and the managers as they were; a connection is attempted
\* only after the URL resolved to a recognized platform.
NoConnectionBeforeResolution ==
    IsCall =>
        /\ ~WellFormed(last.url) \/ ~Reserved(last.url) =>
               /\ IsErr(last.ret)
               /\ last.attempts = 0
               /\ last.net = "unused"
               /\ conns = last.pre_conns
               /\ managers = last.pre_managers
        /\ last.attempts > 0 => last.platform = Ok(Postgres)

FailedCallAmongLiveManagers ==
    /\ IsCall
    /\ WellFormed(last.url)
    /\ ~Reserved(last.url)
    /\ with_postgres
    /\ last.pre_conns # {}

\* C8: to_table_name() returns the type's identifier converted to lower
\* case, with no schema and no alias, and the same value on every call.
TableNameLowercased ==
    tn # None =>
        /\ Len(tn[2].name) = Len(ty)
        /\ \A i \in 1..Len(ty) :
               /\ ~IsUpper(tn[2].name[i])
               /\ IF IsUpper(ty[i])
                  THEN \E k \in DOMAIN UpperChars :
                           /\ UpperChars[k] = ty[i]
                           /\ LowerChars[k] = tn[2].name[i]
                  ELSE tn[2].name[i] = ty[i]
        /\ tn[2].schema = None
        /\ tn[2].alias = None
        /\ tn_prev # None => tn_prev = tn

ActorCalledTwice ==
    /\ ty = sActor
    /\ tn_prev = Some([name |-> <<"a","c","t","o","r">>, schema |-> None,
                       alias |-> None])
    /\ tn = tn_prev

\* C6: a successful insert of n records returns n records in the order of
\* the inputs; the i-th has the i-th input's first_name and last_name, and
\* its generated actor_id and last_update are populated.
InsertThenReturn ==
    inserted # None /\ IsOk(inserted[2].ret) =>
        LET in == inserted[2].records
            out == inserted[2].ret[2]
        IN  /\ Len(out) = Len(in)
            /\ \A i \in 1..Len(in) :
                   /\ out[i].first_name = in[i].first_name
                   /\ out[i].last_name = in[i].last_name
                   /\ out[i].actor_id \in Nat
                   /\ out[i].actor_id = inserted[2].first_id + i - 1
                   /\ out[i].last_update = inserted[2].day

TomCruiseTomHanks ==
    /\ inserted # None
    /\ inserted[2].records =
           <<[first_name |-> "TOM", last_name |-> "CRUISE"],
             [first_name |-> "TOM", last_name |-> "HANKS"]>>
    /\ IsOk(inserted[2].ret)
    /\ Len(inserted[2].ret[2]) = 2
    /\ Len(table) > 2

====
